---- MODULE Spec2Model ----
(***************************************************************************)
(* A model of blogware.py: File / FrontMatterFile (lazy content, lazy      *)
(* frontmatter split, templating), DirIndex / Iter (lazy directory         *)
(* listing, filters, match_exec) and get_config (configuration inherited   *)
(* along the parent chain).                                                *)
(*                                                                         *)
(* Text is a sequence of one-character strings, so that lstrip, replace,   *)
(* split, the TOML parser and str.format are computed, not assumed.        *)
(***************************************************************************)
EXTENDS Integers, Sequences, FiniteSets, TLC

VARIABLES
    storage,     \* the file on disk: [readable, text]
    objKind,     \* class of the object under test: "File" or "FrontMatterFile"
    file,        \* the object's fields: _content, _frontmatter, _body (+ read/split counters)
    lastOp,      \* the last operation applied to the object and its outcome
    nOps,        \* number of operations applied so far
    fs,          \* the directory tree seen by get_config: [cwd, configs]
    gc,          \* the running get_config call: frames, status, result
    entries,     \* what os.scandir lists for the indexed directory
    idxKwargs,   \* DirIndex.kwargs of the cursor's index (mutated by set_var)
    working,     \* Iter.items, the cursor's working sequence
    call,        \* the running match_exec call (local list, predicate, fn)
    log,         \* predicate / fn invocations of the current or last match_exec
    hist,        \* facts recorded about earlier cursor operations
    tree,        \* what the filesystem holds at the paths load_layout can name
    ll,          \* the load_layout call: its argument, the path, the outcome
    sw           \* a Path taken from one root to another and back by swap_root

vars == <<storage, objKind, file, lastOp, nOps, fs, gc,
          entries, idxKwargs, working, call, log, hist, tree, ll, sw>>

fileVars == <<storage, objKind, file, lastOp, nOps>>
configVars == <<fs, gc>>
iterVars == <<entries, idxKwargs, working, call, log, hist>>
layoutVars == <<tree, ll>>
swapVars == <<sw>>

-----------------------------------------------------------------------------
(* Bounds *)

MaxOps == 3          \* operations applied to one File object
MaxFrames == 4       \* depth at which the interpreter stops a runaway recursion
MaxPathLen == 2      \* components of the path given to get_config
MaxEntries == 3      \* directory entries listed by os.scandir
MaxCursorOps == 3    \* operations applied to one Iter
MaxSegs == 3         \* segments of the path swap_root is applied to

-----------------------------------------------------------------------------
(* Python values *)

None == [tag |-> "None"]
Str(s) == [tag |-> "str", s |-> s]
Dict(d) == [tag |-> "dict", d |-> d]

Ok(v) == [kind |-> "ok", val |-> v]
Err(e) == [kind |-> e]

EmptyDict == [k \in {} |-> <<>>]

\* {**a, **b}: b's keys overwrite a's
Merge(a, b) ==
    [k \in (DOMAIN a) \cup (DOMAIN b) |-> IF k \in DOMAIN b THEN b[k] ELSE a[k]]

\* The({e : x \in {v}}) is e with the local variable x holding the value of
\* v, which is evaluated once
The(S) == CHOOSE r \in S : TRUE

-----------------------------------------------------------------------------
(* str methods used by the program *)

Whitespace == {" ", "\t", "\n", "\r", "\f"}

RECURSIVE LStrip(_)
LStrip(s0) ==
    The({ IF s # <<>> /\ Head(s) \in Whitespace THEN LStrip(Tail(s)) ELSE s
          : s \in {s0} })

StartsWith(s, p) ==
    Len(s) >= Len(p) /\ SubSeq(s, 1, Len(p)) = p

\* the least element of a non-empty set of numbers
Least(S) == CHOOSE i \in S : \A j \in S : i <= j

\* str.find, 1-based; 0 when p does not occur in s
Find(s0, p0) ==
    The({ IF at = {} THEN 0 ELSE Least(at)
          : at \in { {i \in 1..(Len(s) - Len(p) + 1) : SubSeq(s, i, i + Len(p) - 1) = p}
                     : s \in {s0}, p \in {p0} } })

\* s.replace(old, new, 1)
ReplaceFirst(s0, old, new) ==
    The({ IF i = 0 THEN s
          ELSE SubSeq(s, 1, i - 1) \o new \o SubSeq(s, i + Len(old), Len(s))
          : s \in {s0}, i \in {Find(s0, old)} })

\* s.split(sep, 1): a list of one or two strings
SplitOnce(s0, sep) ==
    The({ IF i = 0 THEN <<s>>
          ELSE <<SubSeq(s, 1, i - 1), SubSeq(s, i + Len(sep), Len(s))>>
          : s \in {s0}, i \in {Find(s0, sep)} })

\* s.split("\n"): all the lines
RECURSIVE SplitLines(_)
SplitLines(s0) ==
    The({ IF Len(a) = 1 THEN a ELSE <<a[1]>> \o SplitLines(a[2])
          : a \in {SplitOnce(s0, <<"\n">>)} })

-----------------------------------------------------------------------------
(* tomli.loads on documents made of blank lines and  key = "string"  lines *)

TomlWs == {" ", "\t"}

BareKeyChars ==
    {"a", "b", "c", "d", "e", "f", "g", "h", "i", "j", "k", "l", "m",
     "n", "o", "p", "q", "r", "s", "t", "u", "v", "w", "x", "y", "z",
     "0", "1", "2", "3", "4", "5", "6", "7", "8", "9", "_", "-"}

\* characters a basic string may not hold unescaped
StringForbidden == {"\"", "\\", "\n", "\r", "\f"}

RECURSIVE SkipWs(_)
SkipWs(s0) ==
    The({ IF s # <<>> /\ Head(s) \in TomlWs THEN SkipWs(Tail(s)) ELSE s
          : s \in {s0} })

\* a line without the "\r" of a "\r\n" line end
ChopCr(l0) ==
    The({ IF l # <<>> /\ l[Len(l)] = "\r" THEN SubSeq(l, 1, Len(l) - 1) ELSE l
          : l \in {l0} })

\* length of the bare key s starts with
KeyLen(s0) ==
    The({ IF stop = {} THEN Len(s) ELSE Least(stop) - 1
          : stop \in { {i \in 1..Len(s) : s[i] \notin BareKeyChars} : s \in {s0} },
            s \in {s0} })

\* after the closing quote: only whitespace or a comment may follow
ParseRest(key, val, rest0) ==
    The({ IF rest # <<>> /\ Head(rest) # "#" THEN [ok |-> FALSE]
          ELSE [ok |-> TRUE, bind |-> TRUE, key |-> key, val |-> val]
          : rest \in {SkipWs(rest0)} })

\* the value of a statement: s starts where the value does
ParseValue(key, s0) ==
    The({ IF s = <<>> \/ Head(s) # "\"" THEN [ok |-> FALSE]
          ELSE The({ IF Len(a) = 1 THEN [ok |-> FALSE]
                     ELSE IF \E i \in 1..Len(a[1]) : a[1][i] \in StringForbidden
                          THEN [ok |-> FALSE]
                     ELSE ParseRest(key, a[1], a[2])
                     : a \in {SplitOnce(Tail(s), <<"\"">>)} })
          : s \in {s0} })

\* a statement: s1 starts at its key, which is n characters long
ParseStatement(s1, n) ==
    IF n = 0 THEN [ok |-> FALSE]
    ELSE The({ IF s2 = <<>> \/ Head(s2) # "=" THEN [ok |-> FALSE]
               ELSE ParseValue(SubSeq(s1, 1, n), SkipWs(Tail(s2)))
               : s2 \in {SkipWs(SubSeq(s1, n + 1, Len(s1)))} })

\* one line of the document: nothing, one binding, or a syntax error
ParseLine(line0) ==
    The({ IF s1 = <<>> \/ Head(s1) = "#" THEN [ok |-> TRUE, bind |-> FALSE]
          ELSE The({ ParseStatement(s1, n) : n \in {KeyLen(s1)} })
          : s1 \in {SkipWs(ChopCr(line0))} })

RECURSIVE ParseLines(_, _)
ParseLines(lines0, acc0) ==
    The({ IF lines = <<>> THEN [ok |-> TRUE, d |-> acc]
          ELSE The({ IF ~p.ok THEN [ok |-> FALSE]
                     ELSE IF ~p.bind THEN ParseLines(Tail(lines), acc)
                     ELSE IF p.key \in DOMAIN acc THEN [ok |-> FALSE]
                     ELSE ParseLines(Tail(lines),
                                     Merge(acc, [k \in {p.key} |-> p.val]))
                     : p \in {ParseLine(Head(lines))} })
          : lines \in {lines0}, acc \in {acc0} })

\* text -> [ok |-> TRUE, d |-> mapping]  or  [ok |-> FALSE] (TOMLDecodeError)
TomlLoads(text) == ParseLines(SplitLines(text), EmptyDict)

FRONTMATTER_PARSER(text) == TomlLoads(text)
CONFIG_PARSER(text) == TomlLoads(text)

-----------------------------------------------------------------------------
(* str.format(s, **kw) with named fields, "{{" and "}}" *)

\* a replacement field: f is the text after "{", cut at the first "}"
FormatField(f, kw) ==
    IF Len(f) = 1 THEN Err("ValueError")
    ELSE IF f[1] = <<>> THEN Err("IndexError")
    ELSE IF f[1] \notin DOMAIN kw THEN Err("KeyError")
    ELSE Ok(kw[f[1]])

\* the text already produced is acc; s is what remains of the format string
RECURSIVE FormatFrom(_, _, _)
FormatFrom(s0, kw, acc0) ==
    The({ IF s = <<>> THEN Ok(acc)
          ELSE IF Len(s) >= 2 /\ SubSeq(s, 1, 2) \in {<<"{", "{">>, <<"}", "}">>}
              THEN FormatFrom(SubSeq(s, 3, Len(s)), kw, Append(acc, Head(s)))
          ELSE IF Head(s) = "{" THEN
              The({ The({ IF r.kind # "ok" THEN r
                          ELSE FormatFrom(f[2], kw, acc \o r.val)
                          : r \in {FormatField(f, kw)} })
                    : f \in {SplitOnce(Tail(s), <<"}">>)} })
          ELSE IF Head(s) = "}" THEN Err("ValueError")
          ELSE FormatFrom(Tail(s), kw, Append(acc, Head(s)))
          : s \in {s0}, acc \in {acc0} })

FormatStr(s, kw0) == The({ FormatFrom(s, kw, <<>>) : kw \in {kw0} })

\* TEMPLATE_FN(text, **a, **b): a key given twice is a TypeError of the call
TEMPLATE_FN(text, a, b) ==
    IF (DOMAIN a) \cap (DOMAIN b) # {} THEN Err("TypeError")
    ELSE FormatStr(text, Merge(a, b))

-----------------------------------------------------------------------------
(* File and FrontMatterFile *)

FRONTMATTER_TOP == <<"-", "-", "-">>
FRONTMATTER_BOTTOM == <<"-", "-", "-">>

\* File.__init__ / FrontMatterFile.__init__: nothing is loaded yet
NewFile ==
    [content |-> None, frontmatter |-> None, body |-> None,
     reads |-> 0, splits |-> 0, res |-> Err("none")]

\* open(self.path).read(), stored in _content when it succeeds
ReadFile(c) ==
    IF storage.readable
    THEN [c EXCEPT !.content = Str(storage.text), !.reads = @ + 1,
                   !.res = Ok(Str(storage.text))]
    ELSE [c EXCEPT !.reads = @ + 1, !.res = Err("IOError")]

\* variant: the cache test is "if not self._content", so "" counts as unread
ContentProp_NotTruthy(c0) ==
    The({ IF c.content = None \/ c.content = Str(<<>>) THEN ReadFile(c)
          ELSE [c EXCEPT !.res = Ok(c.content)]
          : c \in {c0} })

\* variant: a failed read leaves "" in the cache
ContentProp_CacheFailure(c0) ==
    The({ IF c.content = None
          THEN (IF storage.readable THEN ReadFile(c)
                ELSE [ReadFile(c) EXCEPT !.content = Str(<<>>)])
          ELSE [c EXCEPT !.res = Ok(c.content)]
          : c \in {c0} })

\* File.content: read the file unless _content is cached
ContentProp(c0) ==
    The({ IF c.content = None THEN ReadFile(c)
          ELSE [c EXCEPT !.res = Ok(c.content)]
          : c \in {c0} })

\* variant: the opening delimiter is not removed before the split
SplitParts_NoReplace(text) ==
    SplitOnce(text, FRONTMATTER_BOTTOM)

\* the text handed to FRONTMATTER_PARSER and the body, cut out of the content
SplitParts(text) ==
    SplitOnce(ReplaceFirst(text, FRONTMATTER_TOP, <<>>), FRONTMATTER_BOTTOM)

\* the fields split_frontmatter assigns before it parses
SplitAssign(c, parts) ==
    [c EXCEPT !.frontmatter = Str(parts[1]), !.body = Str(parts[2])]

\* split_frontmatter's return statement after the assignment: parse
SplitParse(c3) ==
    The({ IF p.ok
          THEN [c3 EXCEPT !.res = Ok(<<Dict(p.d), c3.body>>)]
          ELSE [c3 EXCEPT !.res = Err("TOMLDecodeError")]
          : p \in {FRONTMATTER_PARSER(c3.frontmatter.s)} })

\* split_frontmatter when the content starts with the delimiter
SplitDelimited(c1) ==
    The({ IF c2.res.kind # "ok" THEN c2
          ELSE The({ IF Len(parts) # 2 THEN [c2 EXCEPT !.res = Err("ValueError")]
                     ELSE The({ SplitParse(c3) : c3 \in {SplitAssign(c2, parts)} })
                     : parts \in {SplitParts(c2.res.val.s)} })
          : c2 \in {ContentProp(c1)} })

\* variant: without a leading delimiter the whole content is the frontmatter
SplitUndelimited_Swapped(c1) ==
    [c1 EXCEPT !.res = Ok(<<c1.content, Dict(EmptyDict)>>)]

\* split_frontmatter when the content does not start with the delimiter:
\* return {}, self._content
SplitUndelimited(c1) ==
    [c1 EXCEPT !.res = Ok(<<Dict(EmptyDict), c1.content>>)]

\* FrontMatterFile.split_frontmatter: res is the returned pair
SplitFrontmatter(c0) ==
    The({ IF c1.res.kind # "ok" THEN c1
          ELSE IF StartsWith(LStrip(c1.res.val.s), FRONTMATTER_TOP)
              THEN SplitDelimited(c1)
          ELSE SplitUndelimited(c1)
          : c1 \in {ContentProp([c0 EXCEPT !.splits = @ + 1])} })

\* variant: the accessor stores its own half of the split only
FrontmatterProp_OnlyOwn(c0) ==
    The({ IF c.frontmatter # None THEN [c EXCEPT !.res = Ok(c.frontmatter)]
          ELSE The({ IF s.res.kind # "ok" THEN s
                     ELSE [s EXCEPT !.frontmatter = s.res.val[1],
                                    !.res = Ok(s.res.val[1])]
                     : s \in {SplitFrontmatter(c)} })
          : c \in {c0} })

\* FrontMatterFile.frontmatter
FrontmatterProp(c0) ==
    The({ IF c.frontmatter # None THEN [c EXCEPT !.res = Ok(c.frontmatter)]
          ELSE The({ IF s.res.kind # "ok" THEN s
                     ELSE [s EXCEPT !.frontmatter = s.res.val[1],
                                    !.body = s.res.val[2],
                                    !.res = Ok(s.res.val[1])]
                     : s \in {SplitFrontmatter(c)} })
          : c \in {c0} })

\* FrontMatterFile.body
BodyProp(c0) ==
    The({ IF c.body # None THEN [c EXCEPT !.res = Ok(c.body)]
          ELSE The({ IF s.res.kind # "ok" THEN s
                     ELSE [s EXCEPT !.frontmatter = s.res.val[1],
                                    !.body = s.res.val[2],
                                    !.res = Ok(s.res.val[2])]
                     : s \in {SplitFrontmatter(c)} })
          : c \in {c0} })

\* the call TEMPLATE_FN(text, **vars, **fm), made on object state f
TemplateCall(f, text, vs, fm) ==
    IF fm.tag # "dict" THEN [f EXCEPT !.res = Err("TypeError")]
    ELSE The({ [f EXCEPT !.res = IF r.kind = "ok" THEN Ok(Str(r.val)) ELSE r]
               : r \in {TEMPLATE_FN(text, vs, fm.d)} })

\* FrontMatterFile.template: self.body, then **vars, then **self.frontmatter
FrontMatterTemplate(c, vs) ==
    The({ IF b.res.kind # "ok" THEN b
          ELSE The({ IF f.res.kind # "ok" THEN f
                     ELSE TemplateCall(f, b.res.val.s, vs, f.res.val)
                     : f \in {FrontmatterProp(b)} })
          : b \in {BodyProp(c)} })

\* File.template
FileTemplate(c, vs) ==
    The({ IF t.res.kind # "ok" THEN t
          ELSE TemplateCall(t, t.res.val.s, vs, Dict(EmptyDict))
          : t \in {ContentProp(c)} })

-----------------------------------------------------------------------------
(* The files and template variables the object is exercised with *)

NL == <<"\n">>
MetaKeyV == <<"k", "e", "y", " ", "=", " ", "\"", "v", "\"">>
BodyKey == <<"b", "o", "d", "y", " ", "{", "k", "e", "y", "}">>
KeyName == <<"k", "e", "y">>
ZName == <<"z">>

Leads == {<<>>, <<" ">>, <<"\f">>, <<"x">>}
Metas == {<<>>, NL \o MetaKeyV \o NL, NL \o <<"?">> \o NL}
Bodies == {<<>>, NL \o BodyKey, <<"{", "z", "}">>}

Contents ==
    {lead \o top \o meta \o bot \o body :
        lead \in Leads, top \in {<<>>, FRONTMATTER_TOP}, meta \in Metas,
        bot \in {<<>>, FRONTMATTER_BOTTOM}, body \in Bodies}

\* the file of the worked example:  ---\nkey = "v"\n---\nbody {key}
ExampleContent ==
    FRONTMATTER_TOP \o NL \o MetaKeyV \o NL \o FRONTMATTER_BOTTOM \o NL \o BodyKey

\* what another process may write to the file between two accesses
Rewrites == {<<>>, <<"x">> \o ExampleContent}

VarSets ==
    {EmptyDict, [k \in {KeyName} |-> <<"w">>], [k \in {ZName} |-> <<"w">>]}

-----------------------------------------------------------------------------
(* Operations on one File / FrontMatterFile object *)

FileInit ==
    /\ storage \in [readable : BOOLEAN, text : Contents]
    /\ objKind \in {"File", "FrontMatterFile"}
    /\ file = NewFile
    /\ lastOp = [op |-> "init", vs |-> EmptyDict]
    /\ nOps = 0

Did(op, vs) ==
    /\ lastOp' = [op |-> op, vs |-> vs]
    /\ nOps' = nOps + 1
    /\ UNCHANGED <<storage, objKind>>

AccessContent ==
    /\ nOps < MaxOps
    /\ file' = ContentProp(file)
    /\ Did("content", EmptyDict)

AccessFrontmatter ==
    /\ nOps < MaxOps
    /\ objKind = "FrontMatterFile"
    /\ file' = FrontmatterProp(file)
    /\ Did("frontmatter", EmptyDict)

AccessBody ==
    /\ nOps < MaxOps
    /\ objKind = "FrontMatterFile"
    /\ file' = BodyProp(file)
    /\ Did("body", EmptyDict)

CallTemplate ==
    /\ nOps < MaxOps
    /\ \E vs \in VarSets :
          /\ file' = IF objKind = "FrontMatterFile"
                     THEN FrontMatterTemplate(file, vs)
                     ELSE FileTemplate(file, vs)
          /\ Did("template", vs)

\* the environment: the file is rewritten, removed or restored
StorageChange ==
    /\ nOps < MaxOps
    /\ \E st \in [readable : BOOLEAN, text : Rewrites \cup {storage.text}] :
          /\ st # storage
          /\ storage' = st
    /\ lastOp' = [op |-> "storage", vs |-> EmptyDict]
    /\ nOps' = nOps + 1
    /\ UNCHANGED <<objKind, file>>

-----------------------------------------------------------------------------
(* Parked values of the components a specification does not exercise *)

FileParked ==
    /\ storage = [readable |-> FALSE, text |-> <<>>]
    /\ objKind = "File"
    /\ file = NewFile
    /\ lastOp = [op |-> "init", vs |-> EmptyDict]
    /\ nOps = 0

ConfigParked ==
    /\ fs = [cwd |-> <<>>, configs |-> <<>>]
    /\ gc = [status |-> "parked"]

IterParked ==
    /\ entries = <<>>
    /\ idxKwargs = <<>>
    /\ working = [base |-> "parked"]
    /\ call = [pc |-> "parked"]
    /\ log = <<>>
    /\ hist = [n |-> 0]

LayoutParked ==
    /\ tree = <<>>
    /\ ll = [status |-> "parked"]

SwapParked == sw = [pc |-> "parked"]

-----------------------------------------------------------------------------
(* Specification of the File / FrontMatterFile object *)

InitFile == FileInit /\ ConfigParked /\ IterParked /\ LayoutParked /\ SwapParked

NextFile ==
    \/ AccessContent /\ UNCHANGED <<configVars, iterVars, layoutVars, swapVars>>
    \/ AccessFrontmatter /\ UNCHANGED <<configVars, iterVars, layoutVars, swapVars>>
    \/ AccessBody /\ UNCHANGED <<configVars, iterVars, layoutVars, swapVars>>
    \/ CallTemplate /\ UNCHANGED <<configVars, iterVars, layoutVars, swapVars>>
    \/ StorageChange /\ UNCHANGED <<configVars, iterVars, layoutVars, swapVars>>

SpecFile == InitFile /\ [][NextFile]_vars

-----------------------------------------------------------------------------
(* get_config: paths, the directory tree and the recursion *)

CONFIG_NAME == <<"c", "o", "n", "f", "i", "g", ".", "t", "o", "m", "l">>

Names == {"a", "b"}
CurDir == "."

\* the directories that exist, as locations below the filesystem root <<>>
Dirs == {<<>>, <<"a">>, <<"a", "b">>}

\* a path string: absolute ("/a/b") or relative ("a/b", "." and "" included)
Paths ==
    [abs : BOOLEAN,
     comps : UNION {[1..n -> Names \cup {CurDir}] : n \in 0..MaxPathLen}]

AbsPath(comps) == [abs |-> TRUE, comps |-> comps]
RelPath(comps) == [abs |-> FALSE, comps |-> comps]

\* the roots get_config is called with:  /  /a  /a/b  .  a
Roots ==
    {AbsPath(<<>>), AbsPath(<<"a">>), AbsPath(<<"a", "b">>),
     RelPath(<<CurDir>>), RelPath(<<"a">>)}

ConfigA1 == <<"a", " ", "=", " ", "\"", "1", "\"">>
ConfigA2B3 ==
    <<"a", " ", "=", " ", "\"", "2", "\"", "\n", "b", " ", "=", " ", "\"", "3", "\"">>
ConfigBad == <<"a", " ", "=">>

NoFile == [exists |-> FALSE]
ConfigFile(text) == [exists |-> TRUE, text |-> text]
ConfigFiles == {NoFile} \cup {ConfigFile(t) : t \in {ConfigA1, ConfigA2B3, ConfigBad}}

\* where a path leads from the working directory ("." stays in place)
Location(p) ==
    (IF p.abs THEN <<>> ELSE fs.cwd) \o SelectSeq(p.comps, LAMBDA n : n # CurDir)

\* os.stat(p): "" names nothing, as does a path that leaves the tree
Stat(p) ==
    IF ~p.abs /\ p.comps = <<>> THEN [ok |-> FALSE]
    ELSE IF Location(p) \notin Dirs THEN [ok |-> FALSE]
    ELSE [ok |-> TRUE, loc |-> Location(p)]

\* os.path.samefile(a, b): FileNotFoundError when either does not exist
SameFile(a, b) ==
    IF ~Stat(a).ok \/ ~Stat(b).ok THEN Err("FileNotFoundError")
    ELSE Ok(Stat(a).loc = Stat(b).loc)

\* the file os.path.join(dir, CONFIG_NAME) names; join("", name) is name,
\* a path relative to the working directory
ConfigAt(dir) ==
    IF Location(dir) \in Dirs THEN fs.configs[Location(dir)] ELSE NoFile

\* lines 201-206: the directory's own config, {} without a config file
OwnConfig(dir) ==
    IF ~ConfigAt(dir).exists THEN Ok(EmptyDict)
    ELSE The({ IF p.ok THEN Ok(p.d) ELSE Err("TOMLDecodeError")
               : p \in {CONFIG_PARSER(ConfigAt(dir).text)} })

\* os.path.split(dir)[0]:  "/a/b" -> "/a",  "/a" -> "/",  "/" -> "/",
\* "a/b" -> "a",  "a" -> "",  "" -> ""
ParentDir(dir) ==
    IF dir.comps = <<>> THEN dir
    ELSE [dir EXCEPT !.comps = SubSeq(dir.comps, 1, Len(dir.comps) - 1)]

\* line 212: {**get_config(parent_dir, root), **config}
Overlay(parent, own) == Merge(parent, own)

ConfigInit ==
    /\ fs \in [cwd : {<<>>, <<"a">>}, configs : [Dirs -> ConfigFiles]]
    /\ \E dir \in Paths, root \in Roots :
          gc = [dir |-> dir, root |-> root, frames |-> <<>>, next |-> dir,
                status |-> "call", value |-> EmptyDict, error |-> "none"]

Raise(e) == gc' = [gc EXCEPT !.status = "raised", !.error = e]

\* one activation of get_config, up to its return or its recursive call
GetConfigCall ==
    /\ gc.status = "call"
    /\ UNCHANGED fs
    /\ IF Len(gc.frames) >= MaxFrames THEN Raise("RecursionError")
       ELSE \E config \in {OwnConfig(gc.next)}, same \in {SameFile(gc.next, gc.root)} :
          IF config.kind # "ok" THEN Raise(config.kind)
          ELSE IF same.kind # "ok" THEN Raise(same.kind)
          ELSE IF same.val
              THEN gc' = [gc EXCEPT !.status = "return", !.value = config.val]
          ELSE gc' = [gc EXCEPT
                        !.frames = Append(@, [dir |-> gc.next, config |-> config.val]),
                        !.next = ParentDir(gc.next)]

\* the recursive call returned: the waiting activation merges and returns
GetConfigReturn ==
    /\ gc.status = "return"
    /\ UNCHANGED fs
    /\ IF gc.frames = <<>> THEN gc' = [gc EXCEPT !.status = "done"]
       ELSE gc' = [gc EXCEPT
                     !.frames = SubSeq(@, 1, Len(@) - 1),
                     !.value = Overlay(gc.value, gc.frames[Len(gc.frames)].config)]

InitConfig == FileParked /\ ConfigInit /\ IterParked /\ LayoutParked /\ SwapParked

NextConfig ==
    \/ GetConfigCall /\ UNCHANGED <<fileVars, iterVars, layoutVars, swapVars>>
    \/ GetConfigReturn /\ UNCHANGED <<fileVars, iterVars, layoutVars, swapVars>>

SpecConfig == InitConfig /\ [][NextConfig]_vars

-----------------------------------------------------------------------------
(* DirIndex and Iter *)

EntryKinds == {"file", "dir", "other"}

\* os.scandir listings of up to MaxEntries entries
Listings == UNION {[1..n -> EntryKinds] : n \in 0..MaxEntries}

\* the one variable set_var is called with, and its value
VarNames == {"v"}
VarValues == {1}

\* variant: the children get a snapshot of the kwargs taken at construction
Child_CtorKwargs(i) ==
    [type |-> IF entries[i] = "file" THEN "FrontMatterFile" ELSE "DirIndex",
     id |-> i, kwargs |-> hist.ctor]

\* DirIndex.items, one entry: the child built for entry i with the index's
\* kwargs as they are when the generator reaches it
Child(i) ==
    [type |-> IF entries[i] = "file" THEN "FrontMatterFile" ELSE "DirIndex",
     id |-> i, kwargs |-> idxKwargs]

\* is_file / is_dir
is_file(item) == item.type = "FrontMatterFile"
is_dir(item) == item.type = "DirIndex"

\* the filters stacked on the working sequence by files() and dirs()
Passes(item, filters) ==
    \A k \in 1..Len(filters) :
        IF filters[k] = "file" THEN is_file(item) ELSE is_dir(item)

\* the predicates match_exec is called with
Predicates == {"is_file", "is_dir", "any"}

PredHolds(pred, item) ==
    CASE pred = "is_file" -> is_file(item)
      [] pred = "is_dir" -> is_dir(item)
      [] OTHER -> TRUE

\* Iter.__init__: self.items = index.items(), a generator not yet started
NewWorking == [base |-> "gen", items |-> <<>>, pos |-> 1, filters |-> <<>>]

\* what the source under the filters holds at index i, if anything:
\* the generator skips entries that are neither file nor directory
SourceLen(w) == IF w.base = "gen" THEN Len(entries) ELSE Len(w.items)
SourceSkips(w, i) == w.base = "gen" /\ entries[i] = "other"
SourceItem(w, i) == IF w.base = "gen" THEN Child(i) ELSE w.items[i]

\* next(iterator) on the working sequence read from index from: the index of
\* the first source element that is yielded and passes every filter, or 0
NextIndex(w, from) ==
    The({ IF hits = {} THEN 0 ELSE Least(hits)
          : hits \in { {i \in from..SourceLen(w) :
                           ~SourceSkips(w, i) /\ Passes(SourceItem(w, i), w.filters)} } })

\* a list that has no filter on it: every iteration of it starts at its head
Plain(w) == w.base = "list" /\ w.filters = <<>>

\* variant: files() keeps the directories and dirs() the files
Narrow_Swapped(w, kind) ==
    [w EXCEPT !.filters = Append(@, IF kind = "file" THEN "dir" ELSE "file"),
              !.pos = IF w.base = "list" /\ w.filters = <<>> THEN 1 ELSE @]

\* filter(is_file, self.items) / filter(is_dir, self.items): lazy; iter() of a
\* list starts a new list iterator, a generator or a filter is its own iterator
Narrow(w, kind) ==
    [w EXCEPT !.filters = Append(@, kind),
              !.pos = IF w.base = "list" /\ w.filters = <<>> THEN 1 ELSE @]

\* variant: fn is called for every item
Visit_Always(item, pred) ==
    <<[ev |-> "pred", id |-> item.id], [ev |-> "fn", id |-> item.id]>>

\* lines 180-181: the calls made for one item
Visit(item, pred) ==
    <<[ev |-> "pred", id |-> item.id]>>
        \o (IF PredHolds(pred, item) THEN <<[ev |-> "fn", id |-> item.id]>> ELSE <<>>)

\* variant: only matching items are buffered
Buffer_Matching(buf, item, pred) ==
    IF PredHolds(pred, item) THEN Append(buf, item) ELSE buf

\* line 179: items.append(item)
Buffer(buf, item, pred) == Append(buf, item)

\* line 183: self.items = items
Rebuffer(w, buf) == [base |-> "list", items |-> buf, pos |-> 1, filters |-> <<>>]

\* variant: fn's exception is swallowed and the loop goes on
Raises_Swallowed(pred, item, failAt) == FALSE

\* line 181: fn is called for item and raises (fn fails on the item failAt)
Raises(pred, item, failAt) == PredHolds(pred, item) /\ item.id = failAt

\* variant: self.items = items is executed on the way out of a failed call too
Abort_Rebuffer(w, buf) == Rebuffer(w, buf)

\* the exception leaves match_exec from inside the loop: line 183 is not
\* reached and self.items stays the object it was, as far as it was consumed
Abort(w, buf) == w

\* the ids the working sequence yields when it is iterated from now on
Yields(w) ==
    LET from == IF w.base = "list" /\ w.filters = <<>> THEN 1 ELSE w.pos
        idx == [i \in 1..SourceLen(w) |-> i]
        keep(i) == i >= from /\ ~SourceSkips(w, i) /\ Passes(SourceItem(w, i), w.filters)
    IN  [k \in DOMAIN SelectSeq(idx, keep) |->
            SourceItem(w, SelectSeq(idx, keep)[k]).id]

IterInit ==
    /\ entries \in Listings
    /\ idxKwargs = <<>>
    /\ working = NewWorking
    /\ call = [pc |-> "idle", pred |-> "any", failAt |-> 0, buf |-> <<>>, pos |-> 1]
    /\ log = <<>>
    /\ hist = [n |-> 0, ctor |-> <<>>, last |-> "new", prev |-> "new",
               expect |-> <<>>, visited |-> <<>>, prevVisited |-> <<>>,
               start |-> NewWorking, prevExpect |-> <<>>, prevFail |-> 0,
               prevPlain |-> FALSE]

CursorOp(op) ==
    /\ call.pc = "idle"
    /\ hist.n < MaxCursorOps
    /\ hist' = [hist EXCEPT !.n = @ + 1, !.last = op, !.prev = hist.last]

\* Iter.files
Files ==
    /\ CursorOp("files")
    /\ working' = Narrow(working, "file")
    /\ UNCHANGED <<entries, idxKwargs, call, log>>

\* Iter.dirs
DirsOnly ==
    /\ CursorOp("dirs")
    /\ working' = Narrow(working, "dir")
    /\ UNCHANGED <<entries, idxKwargs, call, log>>

\* Iter.set_var: self.index.kwargs[name] = value
SetVar ==
    /\ CursorOp("set_var")
    /\ \E name \in VarNames, value \in VarValues :
          idxKwargs' = [k \in (DOMAIN idxKwargs) \cup {name} |->
                            IF k = name THEN value ELSE idxKwargs[k]]
    /\ UNCHANGED <<entries, working, call, log>>

\* Iter.match_exec, lines 176-178: items = [] and iter(self.items)
MatchExecBegin ==
    /\ call.pc = "idle"
    /\ hist.n < MaxCursorOps
    /\ \E pred \in Predicates, failAt \in 0..Len(entries) :
          call' = [pc |-> "loop", pred |-> pred, failAt |-> failAt,
                   buf |-> <<>>, pos |-> 1]
    /\ log' = <<>>
    /\ hist' = [hist EXCEPT !.n = @ + 1, !.last = "running", !.prev = hist.last,
                            !.expect = Yields(working),
                            !.prevVisited = hist.visited,
                            !.start = working,
                            !.prevExpect = hist.expect,
                            !.prevFail = call.failAt,
                            !.prevPlain = Plain(hist.start)]
    /\ UNCHANGED <<entries, idxKwargs, working>>

\* one turn of the for loop: the next item, append, predicate, fn; when the
\* sequence is exhausted, self.items = items
MatchExecStep ==
    /\ call.pc = "loop"
    /\ UNCHANGED <<entries, idxKwargs>>
    /\ LET plain == Plain(working)
           i == NextIndex(working, IF plain THEN call.pos ELSE working.pos)
           item == SourceItem(working, i)
           visited == [k \in DOMAIN call.buf |-> call.buf[k].id]
       IN  IF i = 0 THEN
               /\ working' = Rebuffer(working, call.buf)
               /\ call' = [call EXCEPT !.pc = "idle"]
               /\ hist' = [hist EXCEPT !.last = "done", !.visited = visited]
               /\ UNCHANGED log
           ELSE
               /\ log' = log \o Visit(item, call.pred)
               /\ IF Raises(call.pred, item, call.failAt)
                  THEN /\ working' = Abort(IF plain THEN working
                                           ELSE [working EXCEPT !.pos = i + 1],
                                           Buffer(call.buf, item, call.pred))
                       /\ call' = [call EXCEPT !.pc = "idle", !.pos = i + 1,
                                     !.buf = Buffer(call.buf, item, call.pred)]
                       /\ hist' = [hist EXCEPT !.last = "raised"]
                  ELSE /\ working' = IF plain THEN working
                                     ELSE [working EXCEPT !.pos = i + 1]
                       /\ call' = [call EXCEPT !.pos = i + 1,
                                     !.buf = Buffer(call.buf, item, call.pred)]
                       /\ UNCHANGED hist

InitIter == FileParked /\ ConfigParked /\ IterInit /\ LayoutParked /\ SwapParked

NextIter ==
    \/ Files /\ UNCHANGED <<fileVars, configVars, layoutVars, swapVars>>
    \/ DirsOnly /\ UNCHANGED <<fileVars, configVars, layoutVars, swapVars>>
    \/ SetVar /\ UNCHANGED <<fileVars, configVars, layoutVars, swapVars>>
    \/ MatchExecBegin /\ UNCHANGED <<fileVars, configVars, layoutVars, swapVars>>
    \/ MatchExecStep /\ UNCHANGED <<fileVars, configVars, layoutVars, swapVars>>

SpecIter == InitIter /\ [][NextIter]_vars

-----------------------------------------------------------------------------
(* os.path on POSIX. A path string is the sequence of its segments between *)
(* "/" characters (str.split("/")): "a/b" is <<"a", "b">>, "/a" is         *)
(* <<"", "a">>, "a/" is <<"a", "">>, "/" is <<"", "">> and "" is <<"">>.   *)

Front(s) == SubSeq(s, 1, Len(s) - 1)
Last(s) == s[Len(s)]

EmptyPath == <<"">>
curdir == "."
pardir == ".."

\* os.path.isabs: path.startswith("/")
isabs(path) == Len(path) >= 2 /\ path[1] = ""

\* os.path.join(a, b): b alone when it is absolute, a + b when a is empty or
\* ends with "/", a + "/" + b otherwise
join(a, b) ==
    IF isabs(b) THEN b
    ELSE IF Last(a) = "" THEN Front(a) \o b
    ELSE a \o b

\* normpath: the number of leading slashes kept (2 for exactly two)
InitialSlashes(path) ==
    IF ~isabs(path) THEN 0
    ELSE IF Len(path) >= 3 /\ path[2] = "" /\ ~(Len(path) >= 4 /\ path[3] = "")
        THEN 2
    ELSE 1

\* normpath, one turn of its loop over the components
NormPush(acc, comp, slashes) ==
    IF comp \in {"", curdir} THEN acc
    ELSE IF \/ comp # pardir
            \/ (slashes = 0 /\ acc = <<>>)
            \/ (acc # <<>> /\ Last(acc) = pardir)
        THEN Append(acc, comp)
    ELSE IF acc # <<>> THEN Front(acc)
    ELSE acc

RECURSIVE NormFold(_, _, _, _)
NormFold(path, k, slashes, acc) ==
    IF k > Len(path) THEN acc
    ELSE The({ NormFold(path, k + 1, slashes, a)
               : a \in {NormPush(acc, path[k], slashes)} })

\* os.path.normpath
normpath(path) ==
    IF path = EmptyPath THEN <<curdir>>
    ELSE The({ The({ IF slashes = 0
                     THEN (IF comps = <<>> THEN <<curdir>> ELSE comps)
                     ELSE [i \in 1..slashes |-> ""]
                              \o (IF comps = <<>> THEN <<"">> ELSE comps)
                     : comps \in {NormFold(path, 1, slashes, <<>>)} })
               : slashes \in {InitialSlashes(path)} })

\* os.path.abspath in the working directory cwd
abspath(path, cwd) ==
    normpath(IF isabs(path) THEN path ELSE join(cwd, path))

\* [x for x in abspath(p).split(sep) if x]
PathList(path, cwd) ==
    LET nonempty(x) == x # ""
    IN  SelectSeq(abspath(path, cwd), nonempty)

\* len(commonprefix([a, b]))
CommonLen(a, b) ==
    The({ IF differ = {} THEN (IF Len(a) < Len(b) THEN Len(a) ELSE Len(b))
          ELSE Least(differ) - 1
          : differ \in { {k \in 1..Len(a) : k > Len(b) \/ a[k] # b[k]} } })

\* os.path.relpath(path, start)
relpath(path, start, cwd) ==
    IF path = EmptyPath THEN Err("ValueError")
    ELSE The({ The({ The({ IF rel = <<>> THEN Ok(<<curdir>>) ELSE Ok(rel)
                           : rel \in { [k \in 1..(Len(sl) - i) |-> pardir]
                                          \o SubSeq(pl, i + 1, Len(pl)) } })
                     : i \in {CommonLen(sl, pl)} })
               : sl \in {PathList(start, cwd)}, pl \in {PathList(path, cwd)} })

-----------------------------------------------------------------------------
(* load_layout *)

LAYOUT_DIR == <<"layouts">>

\* the names load_layout is called with:  post  page  ""  /post
LayoutNames == {<<"post">>, <<"page">>, EmptyPath, <<"", "post">>}

\* the paths those names can lead to, and what the filesystem has there
TreePaths == {<<"layouts", "post">>, <<"layouts", "page">>, <<"", "post">>}
LayoutTexts == {<<>>, ExampleContent}
\* (open() fails on a directory and on a missing file as it does on a file
\* that cannot be read)
TreeEntries ==
    [kind : {"absent", "dir"}, text : {<<>>}, readable : {FALSE}]
        \cup [kind : {"file"}, text : LayoutTexts, readable : BOOLEAN]

\* variant: the test is os.path.exists
isfile_Exists(path) ==
    path \in DOMAIN tree /\ tree[path].kind # "absent"

\* os.path.isfile: a regular file is there (never so for a path that ends
\* with "/", whatever the tree holds)
isfile(path) ==
    path \in DOMAIN tree /\ tree[path].kind = "file"

LayoutInit ==
    /\ tree \in [TreePaths -> TreeEntries]
    /\ ll = [status |-> "none"]

\* load_layout(name); a returned FrontMatterFile is the object the file
\* operations then act on, and storage is the file at its path
load_layout ==
    /\ ll.status = "none"
    /\ \E name \in LayoutNames :
          LET path == join(LAYOUT_DIR, name)
          IN  IF isfile(path)
              THEN /\ ll' = [status |-> "returned", name |-> name, path |-> path]
                   /\ objKind' = "FrontMatterFile"
                   /\ file' = NewFile
                   /\ storage' = [readable |-> tree[path].readable,
                                  text |-> tree[path].text]
              ELSE /\ ll' = [status |-> "raised", name |-> name, path |-> path,
                             error |-> [exc |-> "Exception", layout |-> name]]
                   /\ UNCHANGED <<objKind, file, storage>>
    /\ lastOp' = [op |-> "load_layout", vs |-> EmptyDict]
    /\ UNCHANGED <<nOps, tree>>

Returned == ll.status = "returned"

InitLayout == FileParked /\ ConfigParked /\ IterParked /\ LayoutInit /\ SwapParked

NextLayout ==
    \/ load_layout /\ UNCHANGED <<configVars, iterVars, swapVars>>
    \/ Returned /\ AccessContent /\ UNCHANGED <<configVars, iterVars, layoutVars, swapVars>>
    \/ Returned /\ AccessFrontmatter /\ UNCHANGED <<configVars, iterVars, layoutVars, swapVars>>
    \/ Returned /\ AccessBody /\ UNCHANGED <<configVars, iterVars, layoutVars, swapVars>>

SpecLayout == InitLayout /\ [][NextLayout]_vars

-----------------------------------------------------------------------------
(* Path.swap_root *)

SegNames == {"a", "b", "", curdir, pardir}

\* the path strings of up to MaxSegs segments ("", "/", "a/", "./a", ... too)
PathStrings == UNION {[1..n -> SegNames] : n \in 1..MaxSegs}

\* the roots:  /  /a  a  a/  .  ..  and the empty string
SwapRoots ==
    {<<"", "">>, <<"", "a">>, <<"a">>, <<"a", "">>, <<curdir>>, <<pardir>>,
     EmptyPath}

\* the working directories:  /  and  /a
Cwds == {<<"", "">>, <<"", "a">>}

\* variant: new_root is joined with the path itself
swap_root_NoRelpath(self, old_root, new_root, cwd) ==
    IF self = EmptyPath THEN Err("ValueError") ELSE Ok(join(new_root, self))

\* Path.swap_root
swap_root(self, old_root, new_root, cwd) ==
    The({ IF rel.kind # "ok" THEN rel ELSE Ok(join(new_root, rel.val))
          : rel \in {relpath(self, old_root, cwd)} })

SwapInit ==
    sw \in [pc : {"start"}, cwd : Cwds, p : PathStrings,
            A : SwapRoots, B : SwapRoots,
            there : {Err("none")}, back : {Err("none")}]

\* p.swap_root(A, B)
SwapThere ==
    /\ sw.pc = "start"
    /\ sw' = [sw EXCEPT !.pc = "there",
                        !.there = swap_root(sw.p, sw.A, sw.B, sw.cwd)]

\* the result's swap_root(B, A)
SwapBack ==
    /\ sw.pc = "there"
    /\ sw.there.kind = "ok"
    /\ sw' = [sw EXCEPT !.pc = "back",
                        !.back = swap_root(sw.there.val, sw.B, sw.A, sw.cwd)]

InitSwap == FileParked /\ ConfigParked /\ IterParked /\ LayoutParked /\ SwapInit

NextSwap ==
    \/ SwapThere /\ UNCHANGED <<fileVars, configVars, iterVars, layoutVars>>
    \/ SwapBack /\ UNCHANGED <<fileVars, configVars, iterVars, layoutVars>>

SpecSwap == InitSwap /\ [][NextSwap]_vars

-----------------------------------------------------------------------------
(* Claims about File / FrontMatterFile, checked under SpecFile *)

IsFMF == objKind = "FrontMatterFile"
Stepped == nOps' # nOps

\* C1: template(vars) renders body() with the union of vars and
\* frontmatter(); when a key is in both, the render succeeds and the
\* frontmatter value is the one substituted.
C1_FrontmatterWinsOnCollision ==
    ( /\ IsFMF
      /\ lastOp.op = "template"
      /\ file.body.tag = "str"
      /\ file.frontmatter.tag = "dict"
      /\ (DOMAIN lastOp.vs) \cap (DOMAIN file.frontmatter.d) # {}
      /\ FormatStr(file.body.s, Merge(lastOp.vs, file.frontmatter.d)).kind = "ok" )
    => file.res = Ok(Str(FormatStr(file.body.s,
                                   Merge(lastOp.vs, file.frontmatter.d)).val))

\* C6: once a read of the file has succeeded, the object never reads storage
\* again: the cached content and the read count stay as they are, and every
\* content access returns the cached value, whatever storage holds by then.
C6_ReadOnce ==
    [][ file.content # None =>
          /\ file'.content = file.content
          /\ file'.reads = file.reads
          /\ (Stepped /\ lastOp'.op = "content" => file'.res = Ok(file.content))
      ]_vars

\* C6 witness: "" was read and cached, the file was rewritten, and a later
\* content access returned the cached "" without a second read.
C6_Witness ==
    /\ lastOp.op = "content"
    /\ nOps = 3
    /\ file.content = Str(<<>>)
    /\ file.res = Ok(Str(<<>>))
    /\ file.reads = 1
    /\ storage.readable
    /\ storage.text # <<>>

\* C7: a content access whose read fails with an I/O error caches nothing,
\* and a content access on an unpopulated cache reads storage: it returns the
\* stored text when the file is readable (also after an earlier failure).
C7_FailureNotCached ==
    [][ (Stepped /\ lastOp'.op = "content") =>
          /\ (file'.res.kind = "IOError" => file'.content = None)
          /\ (file.content = None /\ storage.readable =>
                /\ file'.res = Ok(Str(storage.text))
                /\ file'.content = Str(storage.text)
                /\ file'.reads = file.reads + 1)
          /\ (file.content = None /\ ~storage.readable =>
                file'.res.kind = "IOError")
      ]_vars

\* C7 witness: the first read failed, the file became readable, and the
\* retry read it.
C7_Witness ==
    /\ lastOp.op = "content"
    /\ file.res = Ok(Str(storage.text))
    /\ file.content = Str(storage.text)
    /\ file.reads = 2
    /\ nOps = 3

\* C8: between operations the cached frontmatter and the cached body are
\* both unpopulated or both populated; a successful frontmatter or body access
\* leaves both populated, and once they are, no access splits again.
C8_PairMemoized ==
    /\ []((file.frontmatter = None) <=> (file.body = None))
    /\ [][ /\ (Stepped /\ lastOp'.op \in {"frontmatter", "body"}
                       /\ file'.res.kind = "ok")
              => (file'.frontmatter # None /\ file'.body # None)
           /\ (file.frontmatter # None /\ file.body # None)
              => (file'.splits = file.splits
                    /\ file'.frontmatter = file.frontmatter
                    /\ file'.body = file.body)
         ]_vars

\* C8 witness: one access split the file, and a later body access returned
\* the cached body without a second split.
C8_Witness ==
    /\ IsFMF
    /\ lastOp.op = "body"
    /\ nOps = 2
    /\ file.splits = 1
    /\ file.frontmatter.tag = "dict"
    /\ file.res = Ok(file.body)

\* the frontmatter region and the body as the format defines them: between
\* the opening delimiter of the stripped content and the next delimiter, and
\* after that one
HasFrontmatter(text) ==
    /\ StartsWith(LStrip(text), FRONTMATTER_TOP)
    /\ Find(SubSeq(LStrip(text), Len(FRONTMATTER_TOP) + 1, Len(LStrip(text))),
            FRONTMATTER_BOTTOM) # 0

Delimited(text) ==
    LET t == LStrip(text)
    IN  SplitOnce(SubSeq(t, Len(FRONTMATTER_TOP) + 1, Len(t)), FRONTMATTER_BOTTOM)

\* C9: for content that, stripped of leading whitespace, opens with the
\* delimiter and holds a second one, frontmatter() is the parser's result on
\* exactly the text between the two delimiters and body() is the text after
\* the closing one.
C9_ParsesDelimitedRegion ==
    ( /\ IsFMF
      /\ lastOp.op \in {"frontmatter", "body"}
      /\ file.content # None
      /\ HasFrontmatter(file.content.s)
      /\ FRONTMATTER_PARSER(Delimited(file.content.s)[1]).ok )
    => /\ lastOp.op = "frontmatter" =>
            file.res = Ok(Dict(FRONTMATTER_PARSER(Delimited(file.content.s)[1]).d))
       /\ lastOp.op = "body" =>
            file.res = Ok(Str(Delimited(file.content.s)[2]))

KeyV == [k \in {KeyName} |-> <<"v">>]
BodyV == <<"b", "o", "d", "y", " ", "v">>

\* C10 as stated: for the content  ---\nkey = "v"\n---\nbody {key}
\* frontmatter() is {key: "v"}, body() is exactly "body {key}" and
\* template({}) is exactly "body v".
C10_ExampleAsStated ==
    (IsFMF /\ file.content = Str(ExampleContent)) =>
        /\ lastOp.op = "frontmatter" => file.res = Ok(Dict(KeyV))
        /\ lastOp.op = "body" => file.res = Ok(Str(BodyKey))
        /\ (lastOp.op = "template" /\ lastOp.vs = EmptyDict)
              => file.res = Ok(Str(BodyV))

\* C10 amended: for that content frontmatter() is {key: "v"}, body() is
\* "\nbody {key}" (the newline that ends the closing delimiter line stays in
\* the body) and template({}) is "\nbody v".
C10_Example ==
    (IsFMF /\ file.content = Str(ExampleContent)) =>
        /\ lastOp.op = "frontmatter" => file.res = Ok(Dict(KeyV))
        /\ lastOp.op = "body" => file.res = Ok(Str(NL \o BodyKey))
        /\ (lastOp.op = "template" /\ lastOp.vs = EmptyDict)
              => file.res = Ok(Str(NL \o BodyV))

\* C10 witness: the example file was rendered with no variables.
C10_Witness ==
    /\ IsFMF
    /\ file.content = Str(ExampleContent)
    /\ lastOp.op = "template"
    /\ lastOp.vs = EmptyDict
    /\ file.frontmatter = Dict(KeyV)
    /\ file.res = Ok(Str(NL \o BodyV))

\* C11: for content that, stripped of leading whitespace, does not begin with
\* the delimiter (the empty content and content holding the delimiter further
\* on included), frontmatter() is the empty mapping and body() is the whole
\* content, whichever of the two is accessed first.
C11_NoDelimiterNoFrontmatter ==
    ( /\ IsFMF
      /\ lastOp.op \in {"frontmatter", "body"}
      /\ file.content # None
      /\ ~StartsWith(LStrip(file.content.s), FRONTMATTER_TOP) )
    => /\ file.frontmatter = Dict(EmptyDict)
       /\ file.body = file.content
       /\ lastOp.op = "frontmatter" => file.res = Ok(Dict(EmptyDict))
       /\ lastOp.op = "body" => file.res = Ok(file.content)

\* C11 witness: body() was the first access of a file whose delimiters come
\* after an "x", and it returned the whole content.
C11_Witness ==
    /\ IsFMF
    /\ nOps = 1
    /\ lastOp.op = "body"
    /\ file.content = Str(<<"x">> \o ExampleContent)
    /\ file.res = Ok(file.content)
    /\ file.frontmatter = Dict(EmptyDict)

\* C17: a frontmatter access that returns a value returns a mapping; in
\* particular, after the parser rejected the region, a later access does not
\* return the unparsed text.
C17_FrontmatterIsMapping ==
    (IsFMF /\ lastOp.op = "frontmatter" /\ file.res.kind = "ok")
        => file.res.val.tag = "dict"

-----------------------------------------------------------------------------
(* Claims about get_config, checked under SpecConfig *)

IsPrefix(r, d) == Len(r) <= Len(d) /\ SubSeq(d, 1, Len(r)) = r

\* the parsed config file of an existing directory
ParsedAt(loc) ==
    IF fs.configs[loc].exists THEN CONFIG_PARSER(fs.configs[loc].text)
    ELSE [ok |-> TRUE, d |-> EmptyDict]

\* the directories from r down to d, r first
Chain(r, d) == [i \in 1..(Len(d) - Len(r) + 1) |-> SubSeq(d, 1, Len(r) + i - 1)]

\* every key some directory of the chain defines, with the value the deepest
\* of them gives it
ChainConfig(r, d) ==
    LET chain == Chain(r, d)
        defines(k) == {i \in DOMAIN chain : k \in DOMAIN ParsedAt(chain[i]).d}
        deepest(k) == CHOOSE i \in defines(k) : \A j \in defines(k) : j <= i
    IN  [k \in UNION {DOMAIN ParsedAt(chain[i]).d : i \in DOMAIN chain}
            |-> ParsedAt(chain[deepest(k)]).d[k]]

\* dir denotes the root directory or one below it, and every config file
\* from the root down to it parses
UnderRoot ==
    /\ Stat(gc.dir).ok
    /\ Stat(gc.root).ok
    /\ IsPrefix(Stat(gc.root).loc, Stat(gc.dir).loc)
    /\ \A i \in DOMAIN Chain(Stat(gc.root).loc, Stat(gc.dir).loc) :
          ParsedAt(Chain(Stat(gc.root).loc, Stat(gc.dir).loc)[i]).ok

\* C2: for every directory D that is the root R or below it, get_config(D, R)
\* returns exactly the keys of the config files from R down to D, each with
\* the value of the deepest directory that defines it.
C2_ConfigAlongChain ==
    (gc.status \in {"done", "raised"} /\ UnderRoot)
    => /\ gc.status = "done"
       /\ gc.value = ChainConfig(Stat(gc.root).loc, Stat(gc.dir).loc)

\* C3: the walk up the parent chain stops where the parent of a directory is
\* the directory itself: no activation of get_config for such a directory
\* calls get_config again.
C3_StopsAtFilesystemRoot ==
    \A i \in 1..Len(gc.frames) : ParentDir(gc.frames[i].dir) # gc.frames[i].dir

-----------------------------------------------------------------------------
(* Claims about Iter, checked under SpecIter *)

Completed == call.pc = "idle" /\ hist.last = "done"

\* the predicates, decided on the directory entry an item was built for
HoldsOfEntry(pred, id) ==
    CASE pred = "is_file" -> entries[id] = "file"
      [] pred = "is_dir" -> entries[id] = "dir"
      [] OTHER -> TRUE

\* one predicate call per id, in order, each followed by one fn call exactly
\* when the predicate holds
RECURSIVE ExpectedLog(_, _)
ExpectedLog(ids, pred) ==
    IF ids = <<>> THEN <<>>
    ELSE <<[ev |-> "pred", id |-> Head(ids)]>>
            \o (IF HoldsOfEntry(pred, Head(ids))
                THEN <<[ev |-> "fn", id |-> Head(ids)]>> ELSE <<>>)
            \o ExpectedLog(Tail(ids), pred)

\* C4: a match_exec that completes has evaluated the predicate once on every
\* item the working sequence held when it was called, in the sequence's
\* order, and has called fn once for each item the predicate holds of, right
\* after that item's predicate call, and for no other item.
C4_OncePerItemInOrder ==
    Completed => log = ExpectedLog(hist.expect, call.pred)

\* C4 witness: a completed call over at least two items, one matching (fn
\* called) and one not.
C4_Witness ==
    /\ Completed
    /\ Len(hist.expect) >= 2
    /\ \E k \in 1..Len(log) : log[k].ev = "fn"
    /\ Len(log) < 2 * Len(hist.expect)

\* C5: when match_exec completes, the working sequence is the list of all
\* the items it consumed, matching or not, in order; iterating the cursor
\* again yields those same items, and a match_exec that directly follows a
\* completed one visits exactly the items that one visited.
C5_Rebuffered ==
    Completed =>
        /\ working.base = "list"
        /\ working.filters = <<>>
        /\ [k \in DOMAIN working.items |-> working.items[k].id] = hist.expect
        /\ Yields(working) = hist.expect
        /\ (hist.prev = "done" => hist.visited = hist.prevVisited)

\* C5 witness: two match_exec calls in a row completed over two items, the
\* second visiting both although its predicate holds of one only.
C5_Witness ==
    /\ Completed
    /\ hist.prev = "done"
    /\ Len(hist.visited) = 2
    /\ hist.prevVisited = hist.visited
    /\ Len(log) = 3

Aborted == call.pc = "idle" /\ hist.last = "raised"

Ids(items) == [k \in DOMAIN items |-> items[k].id]

\* the position of id in a sequence of distinct ids, the part up to and
\* including it, and the part after it
IndexOf(ids, id) == Least({k \in 1..Len(ids) : ids[k] = id})
Through(ids, id) == SubSeq(ids, 1, IndexOf(ids, id))
After(ids, id) == SubSeq(ids, IndexOf(ids, id) + 1, Len(ids))

\* C14: when fn raises for an item, match_exec ends there with that failure:
\* the fn call on the failing item is the last call made, the calls made are
\* those of a run over the items up to the failing one, and no item after it
\* was taken from the working sequence.
C14_AbortsAtFailure ==
    /\ \A k \in 1..Len(log) :
          (log[k].ev = "fn" /\ log[k].id = call.failAt)
              => (k = Len(log) /\ call.pc = "idle")
    /\ Aborted =>
          /\ call.failAt \in {hist.expect[k] : k \in 1..Len(hist.expect)}
          /\ log = ExpectedLog(Through(hist.expect, call.failAt), call.pred)
          /\ Ids(call.buf) = Through(hist.expect, call.failAt)
          /\ (~Plain(working) =>
                Yields(working) = After(hist.expect, call.failAt))

\* C14 witness: fn raised on the second of three items; the third was neither
\* tested nor taken.
C14_Witness ==
    /\ Aborted
    /\ Len(hist.expect) = 3
    /\ call.failAt = hist.expect[2]
    /\ Len(call.buf) = 2
    /\ working.base = "gen"
    /\ Yields(working) = <<hist.expect[3]>>

OfKind(ids, kind) ==
    LET keep(id) == entries[id] = kind
    IN  SelectSeq(ids, keep)

FilterStep(op) == hist'.n = hist.n + 1 /\ hist'.last = op

\* C16: files() leaves in the working sequence exactly its file items and
\* dirs() exactly its directory items, in the order they had; neither calls
\* the predicate or fn nor takes an item from the sequence; after files() and
\* dirs() in either order the sequence yields nothing.
C16_FiltersNarrowOnly ==
    /\ [][ /\ FilterStep("files") =>
                Yields(working') = OfKind(Yields(working), "file")
           /\ FilterStep("dirs") =>
                Yields(working') = OfKind(Yields(working), "dir")
           /\ (FilterStep("files") \/ FilterStep("dirs")) =>
                /\ log' = log
                /\ call' = call
                /\ working'.base = working.base
                /\ working'.items = working.items
                /\ (~Plain(working) => working'.pos = working.pos)
         ]_vars
    /\ []( (\E j, k \in 1..Len(working.filters) :
                working.filters[j] = "file" /\ working.filters[k] = "dir")
            => Yields(working) = <<>> )

\* C16 witness: dirs() after files() on a listing that has a file and a
\* directory, nothing called and nothing taken.
C16_Witness ==
    /\ hist.last = "dirs"
    /\ hist.prev = "files"
    /\ \E i, j \in 1..Len(entries) : entries[i] = "file" /\ entries[j] = "dir"
    /\ working.base = "gen"
    /\ working.pos = 1
    /\ working.filters = <<"file", "dir">>
    /\ Yields(working) = <<>>
    /\ log = <<>>

\* C18: when match_exec ends because fn raised, the working sequence is not
\* replaced by the items buffered so far. A list left by an earlier completed
\* call is unchanged, and a retry visits all of it again; a lazy sequence
\* (the fresh listing, or any sequence narrowed by files() or dirs()) is the
\* same object, advanced past the failing item, and a retry visits the items
\* after the failing one only.
C18_FailureKeepsWorking ==
    /\ Aborted =>
          IF Plain(hist.start)
          THEN working = hist.start /\ Yields(working) = hist.expect
          ELSE /\ working.base = hist.start.base
               /\ working.items = hist.start.items
               /\ working.filters = hist.start.filters
               /\ Yields(working) = After(hist.expect, call.failAt)
    /\ (hist.prev = "raised" /\ hist.last \in {"running", "done", "raised"}) =>
          hist.expect = IF hist.prevPlain THEN hist.prevExpect
                        ELSE After(hist.prevExpect, hist.prevFail)

\* C18 witness: a first call over the fresh listing of three entries failed on
\* the first item, and the retry completed having visited the other two.
C18_Witness ==
    /\ Completed
    /\ hist.prev = "raised"
    /\ ~hist.prevPlain
    /\ Len(hist.prevExpect) = 3
    /\ hist.prevFail = hist.prevExpect[1]
    /\ hist.visited = After(hist.prevExpect, hist.prevFail)
    /\ Len(hist.visited) = 2

-----------------------------------------------------------------------------
(* Claims about load_layout, checked under SpecLayout *)

\* where a layout name leads: below the layouts directory, or, for a name
\* that starts with "/", to that absolute path
Resolved(name) ==
    IF Len(name) >= 2 /\ name[1] = "" THEN name ELSE <<"layouts">> \o name

RegularAt(path) ==
    \E q \in TreePaths : q = path /\ tree[q].kind = "file"

\* C12: load_layout(name) fails with an error that carries name whenever
\* the path name resolves to is not a regular file (nothing there, or a
\* directory), and no file has been read by then; otherwise it returns a
\* FrontMatterFile over that path, nothing read yet, whose content is the
\* text stored in that file.
C12_LoadLayout ==
    /\ ll.status = "raised" =>
          /\ ~RegularAt(Resolved(ll.name))
          /\ ll.error = [exc |-> "Exception", layout |-> ll.name]
          /\ file = NewFile
    /\ ll.status = "returned" =>
          /\ RegularAt(Resolved(ll.name))
          /\ ll.path = Resolved(ll.name)
          /\ objKind = "FrontMatterFile"
          /\ (nOps = 0 => file = NewFile)
          /\ (lastOp.op = "content" /\ tree[ll.path].readable) =>
                file.res = Ok(Str(tree[ll.path].text))
          /\ file.content # None => file.content = Str(tree[ll.path].text)

\* C12 witness: the layout post was loaded while layouts/page is a directory,
\* and a content access then read the stored text.
C12_Witness ==
    /\ ll.status = "returned"
    /\ ll.name = <<"post">>
    /\ tree[<<"layouts", "page">>].kind = "dir"
    /\ lastOp.op = "content"
    /\ file.reads = 1
    /\ file.res = Ok(Str(ExampleContent))

-----------------------------------------------------------------------------
(* Claims about Path.swap_root, checked under SpecSwap *)

\* the location a path string names: the names that lead to it from "/"
Place(path, cwd) == PathList(path, cwd)

\* p names the location of root or a location below it
Under(p, root, cwd) ==
    /\ p # EmptyPath
    /\ Len(Place(root, cwd)) <= Len(Place(p, cwd))
    /\ SubSeq(Place(p, cwd), 1, Len(Place(root, cwd))) = Place(root, cwd)

\* the non-empty relative paths written with plain names only
PlainRels == UNION {[1..n -> {"a", "b"}] : n \in 1..MaxSegs}

\* root followed by the components of rel, as one path string
Below(root, rel) ==
    IF root = EmptyPath THEN rel
    ELSE IF root[Len(root)] = "" THEN SubSeq(root, 1, Len(root) - 1) \o rel
    ELSE root \o rel

\* C13 as stated: for any p under a root A, A itself included, and any
\* root B, p.swap_root(A, B).swap_root(B, A) equals p.
C13_RoundTripAsStated ==
    (sw.pc = "back" /\ Under(sw.p, sw.A, sw.cwd)) => sw.back = Ok(sw.p)

\* C13 amended: for any roots A and B and any p written as A followed by one
\* or more plain names, p.swap_root(A, B).swap_root(B, A) equals p; when p is
\* A itself the round trip gives A followed by a "." component.
C13_RoundTrip ==
    /\ (sw.pc = "back" /\ \E r \in PlainRels : sw.p = Below(sw.A, r))
          => sw.back = Ok(sw.p)
    /\ (sw.pc = "back" /\ sw.p = sw.A)
          => sw.back = Ok(Below(sw.A, <<".">>))

\* C13 witness: /a/b was taken from /a to the relative root a and back.
C13_Witness ==
    /\ sw.pc = "back"
    /\ sw.A = <<"", "a">>
    /\ sw.B = <<"a">>
    /\ sw.p = <<"", "a", "b">>
    /\ sw.there = Ok(<<"a", "b">>)
    /\ sw.back = Ok(sw.p)

====
